---------------------------- MODULE Spec2Model ----------------------------
(***************************************************************************)
(* spausedd: the measurement loop poll_run, the signal handlers, the       *)
(* statistics line and the /proc/stat steal-time reader of spausedd.c.     *)
(*                                                                         *)
(* Scale of the model.  TLC's integers are 32 bits wide, so the program's  *)
(* uint64_t is a word of WordBits bits (arithmetic modulo 2^WordBits) and  *)
(* a millisecond is NO_NS_IN_MSEC clock units instead of 1000000.  All     *)
(* arithmetic keeps the shape of the source: unsigned subtraction wraps,   *)
(* integer division truncates.  A double is kept as an exact fraction      *)
(* (see Percent); rounding of the 53-bit mantissa is not modelled.         *)
(***************************************************************************)
EXTENDS Integers, Sequences, FiniteSets, TLC

(***************************************************************************)
(* Bounds of the model                                                     *)
(***************************************************************************)
WordBits == 12
NO_NS_IN_MSEC == 1
MaxClock == 2

(***************************************************************************)
(* Program constants                                                       *)
(***************************************************************************)
NO_MSEC_IN_SEC == 1000
NO_NS_IN_SEC == NO_MSEC_IN_SEC * NO_NS_IN_MSEC
DEFAULT_MAX_STEAL_THRESHOLD == 10
DEFAULT_CLOCK_TICK == 100
EXIT_POLL_ERROR == 2
EXIT_ERRX == 1
DEFAULT_TIMEOUT == 200
MAX_TIMEOUT == 1000 * 60 * 60
DEFAULT_MAX_STEAL_THRESHOLD_GL == 100
(* NO_NS_IN_MSEC as the source has it, for main and the first lines of poll_run *)
NO_NS_IN_MSEC_ULL == 1000000
MOVE_TO_ROOT_CGROUP_MODE_OFF == 0
MOVE_TO_ROOT_CGROUP_MODE_ON == 1
MOVE_TO_ROOT_CGROUP_MODE_AUTO == 2

UINT64_MOD == 2 ^ WordBits
U64(x) == x % UINT64_MOD

(***************************************************************************)
(* Text: a line is a sequence of one-character strings.                    *)
(***************************************************************************)
DigitChars == <<"0", "1", "2", "3", "4", "5", "6", "7", "8", "9">>
IsDigit(c) == \E i \in 1..10 : DigitChars[i] = c
DigitVal(c) == (CHOOSE i \in 1..10 : DigitChars[i] = c) - 1
IsSpace(c) == c \in {" ", "\n"}

RECURSIVE SkipSpace(_, _)
SkipSpace(s, i) ==
  IF i <= Len(s) /\ IsSpace(s[i]) THEN SkipSpace(s, i + 1) ELSE i

RECURSIVE DigitsEnd(_, _)
DigitsEnd(s, i) ==
  IF i <= Len(s) /\ IsDigit(s[i]) THEN DigitsEnd(s, i + 1) ELSE i

RECURSIVE DigitsValue(_, _, _)
DigitsValue(s, i, e) ==
  IF e < i THEN 0 ELSE U64(DigitsValue(s, i, e - 1) * 10 + DigitVal(s[e]))

(* The conversions " %PRIu64" of the format, at most 8 of them: each skips   *)
(* white space and reads the longest run of digits; the first one that finds *)
(* no digit ends the scan.  The result is the sequence of values assigned.   *)
RECURSIVE ScanFields(_, _, _)
ScanFields(s, i, vals) ==
  IF Len(vals) = 8 THEN vals
  ELSE LET j == SkipSpace(s, i)
       IN IF j > Len(s) \/ ~IsDigit(s[j]) THEN vals
          ELSE LET e == DigitsEnd(s, j)
               IN ScanFields(s, e, Append(vals, DigitsValue(s, j, e - 1)))

(* sscanf(buf, "cpu %PRIu64 ... %PRIu64", ...): the literal "cpu" must match *)
(* the first three characters; the white space of the format matches any     *)
(* amount of white space, none included.                                     *)
sscanf_cpu(s) ==
  IF Len(s) >= 3 /\ s[1] = "c" /\ s[2] = "p" /\ s[3] = "u"
  THEN ScanFields(s, 4, <<>>)
  ELSE <<>>

(***************************************************************************)
(* Numbers at the program's own scale.  main's long long and the products  *)
(* of poll_run's first lines do not fit TLC's integers: a wide number is   *)
(* the sequence of its decimal digits, least significant first, without    *)
(* leading zeros (0 is the empty sequence).                                *)
(***************************************************************************)
RECURSIVE Wide(_)
Wide(n) == IF n = 0 THEN <<>> ELSE <<n % 10>> \o Wide(n \div 10)

RECURSIVE Reverse(_)
Reverse(q) == IF q = <<>> THEN <<>> ELSE Append(Reverse(Tail(q)), Head(q))

RECURSIVE StripZeros(_)
StripZeros(a) ==
  IF a # <<>> /\ a[Len(a)] = 0 THEN StripZeros(SubSeq(a, 1, Len(a) - 1)) ELSE a

(* the number written most significant digit first *)
WideOfDigits(ds) == StripZeros(Reverse(ds))

RECURSIVE WideLTFrom(_, _, _)
WideLTFrom(a, b, k) ==
  IF k = 0 THEN FALSE
  ELSE IF a[k] # b[k] THEN a[k] < b[k]
  ELSE WideLTFrom(a, b, k - 1)
WideLT(a, b) == IF Len(a) # Len(b) THEN Len(a) < Len(b) ELSE WideLTFrom(a, b, Len(a))
WideLE(a, b) == ~WideLT(b, a)

(* a * k + carry for an integer k *)
RECURSIVE WideMulInt(_, _, _)
WideMulInt(a, k, carry) ==
  IF a = <<>> THEN Wide(carry)
  ELSE LET v == Head(a) * k + carry
       IN <<v % 10>> \o WideMulInt(Tail(a), k, v \div 10)
WideMul(a, k) == StripZeros(WideMulInt(a, k, 0))

(* a - b for a >= b *)
RECURSIVE WideSubFrom(_, _, _)
WideSubFrom(a, b, borrow) ==
  IF a = <<>> THEN <<>>
  ELSE LET y == (IF b = <<>> THEN 0 ELSE Head(b)) + borrow
           v == Head(a) - y
       IN <<(v + 10) % 10>>
          \o WideSubFrom(Tail(a), IF b = <<>> THEN <<>> ELSE Tail(b), IF v < 0 THEN 1 ELSE 0)
WideSub(a, b) == StripZeros(WideSubFrom(a, b, 0))

RECURSIVE WideToInt(_)
WideToInt(a) == IF a = <<>> THEN 0 ELSE Head(a) + 10 * WideToInt(Tail(a))

(* 2^64, and a product as uint64_t holds it *)
TWO_64 == WideOfDigits(<<1, 8, 4, 4, 6, 7, 4, 4, 0, 7, 3, 7, 0, 9, 5, 5, 1, 6, 1, 6>>)
RECURSIVE WideU64(_)
WideU64(a) == IF WideLT(a, TWO_64) THEN a ELSE WideU64(WideSub(a, TWO_64))

(* a long long: sign and magnitude *)
LongLong(neg, mag) == [neg |-> neg /\ mag # <<>>, mag |-> mag]
LongLongLT(x, y) ==
  IF x.neg # y.neg THEN x.neg
  ELSE IF x.neg THEN WideLT(y.mag, x.mag) ELSE WideLT(x.mag, y.mag)
LLONG_MAX == WideOfDigits(<<9, 2, 2, 3, 3, 7, 2, 0, 3, 6, 8, 5, 4, 7, 7, 5, 8, 0, 7>>)
UINT32_MAX == WideOfDigits(<<4, 2, 9, 4, 9, 6, 7, 2, 9, 5>>)

RECURSIVE DigitsOf(_, _, _)
DigitsOf(s, i, e) == IF e < i THEN <<>> ELSE <<DigitVal(s[e])>> \o DigitsOf(s, i, e - 1)

(* strtoll(str, &ep, 10): white space, an optional sign, the longest run of *)
(* digits.  ep is the index of the first character not converted, 1 (str   *)
(* itself) when there is no digit; errno is ERANGE when the value does not  *)
(* fit a long long.                                                         *)
strtoll(str) ==
  LET j == SkipSpace(str, 1)
      signed == j <= Len(str) /\ str[j] \in {"+", "-"}
      d == IF signed THEN j + 1 ELSE j
      e == DigitsEnd(str, d)
      mag == StripZeros(DigitsOf(str, d, e - 1))
      neg == signed /\ str[j] = "-"
  IN IF e = d
     THEN [ep |-> 1, val |-> LongLong(FALSE, <<>>), erange |-> FALSE]
     ELSE [ep |-> e, val |-> LongLong(neg, mag),
           erange |-> IF neg THEN WideLT(WideMulInt(LLONG_MAX, 1, 1), mag)
                      ELSE WideLT(LLONG_MAX, mag)]

(* util_strtonum: -1, or 0 and the number *)
util_strtonum(str, min_val, max_val) ==
  LET r == strtoll(str)
  IN IF LongLongLT(max_val, min_val) THEN [res |-> -1, val |-> LongLong(FALSE, <<>>)]
     ELSE IF r.ep = 1 \/ r.ep <= Len(str) \/ r.erange
     THEN [res |-> -1, val |-> LongLong(FALSE, <<>>)]
     ELSE IF LongLongLT(r.val, min_val) \/ LongLongLT(max_val, r.val)
     THEN [res |-> -1, val |-> LongLong(FALSE, <<>>)]
     ELSE [res |-> 0, val |-> r.val]

(* /proc/stat as fopen and fgets see it: whether it opens, and its lines.    *)
NoFile == [opens |-> FALSE, lines |-> <<>>]
File(ls) == [opens |-> TRUE, lines |-> ls]

ClockTickOrDefault(tick) == IF tick = -1 THEN DEFAULT_CLOCK_TICK ELSE tick
StealFactor(tick) == NO_NS_IN_SEC \div ClockTickOrDefault(tick)

(* the variant that takes the field before steal, softirq *)
StealOfLineSoftirq(vals, tick) ==
  LET s_steal == IF Len(vals) >= 7 THEN vals[7] ELSE 0
  IN U64(s_steal * StealFactor(tick))

(* One accepted line: s_steal * factor, s_steal staying 0 when fewer than 8  *)
(* fields were assigned.                                                     *)
StealOfLine(vals, tick) ==
  LET s_steal == IF Len(vals) >= 8 THEN vals[8] ELSE 0
  IN U64(s_steal * StealFactor(tick))

(* The while (fgets(...)) loop: the first line on which sscanf assigns more  *)
(* than 4 fields decides the result.                                         *)
RECURSIVE ScanLines(_, _, _)
ScanLines(file, k, tick) ==
  IF k > Len(file) THEN 0
  ELSE LET vals == sscanf_cpu(file[k])
       IN IF Len(vals) > 4 THEN StealOfLine(vals, tick)
          ELSE ScanLines(file, k + 1, tick)

nano_stealtime_kernel_get(file, tick) ==
  IF ~file.opens THEN 0 ELSE ScanLines(file.lines, 1, tick)

(* What VMGuestLib answers to one query: whether VMGuestLib_UpdateInfo and   *)
(* VMGuestLib_GetCpuStolenMs succeed, and the stolen milliseconds.           *)
GuestAnswer(u, g, ms) == [update |-> u, get |-> g, stolen_ms |-> ms]

nano_stealtime_vmguestlib_get(guest) ==
  IF ~guest.update THEN 0
  ELSE IF ~guest.get THEN 0
  ELSE U64(NO_NS_IN_MSEC * guest.stolen_ms)

(* use is use_vmguestlib_stealtime, which stays 0 in a build without         *)
(* HAVE_VMGUESTLIB                                                           *)
nano_stealtime_get(use, file, guest, tick) ==
  IF use # 0 THEN nano_stealtime_vmguestlib_get(guest)
  ELSE nano_stealtime_kernel_get(file, tick)

(***************************************************************************)
(* Inputs: the contents /proc/stat may have.  Lines are written from       *)
(* tokens; Dec writes a number in decimal, so that reading it back is the  *)
(* scanner's work.                                                         *)
(***************************************************************************)
RECURSIVE Dec(_)
Dec(n) == IF n < 10 THEN <<DigitChars[n + 1]>>
          ELSE Dec(n \div 10) \o <<DigitChars[(n % 10) + 1]>>

RECURSIVE Fields(_)
Fields(ns) == IF ns = <<>> THEN <<>> ELSE <<" ">> \o Dec(Head(ns)) \o Fields(Tail(ns))

TagCpu == <<"c", "p", "u">>
TagCpu0 == <<"c", "p", "u", "0">>
TagIntr == <<"i", "n", "t", "r">>
Garbage == <<" ", "x">>

(* user nice system idle iowait irq softirq, twice with different values *)
OtherFields == { <<100, 5, 50, 800, 2, 1, 3>>, <<9, 9, 9, 9, 9, 9, 9>> }
StealTicks == {0, 1, 2, 40}

(* the aggregate line with fields o, steal ticks h and what follows them *)
AggregateLine(o, h, rest) == TagCpu \o <<" ">> \o Fields(o \o <<h>> \o rest)
(* nothing, or the guest and guest_nice fields *)
GuestFields == { <<>>, <<0, 0>> }
WellFormedLines ==
  { AggregateLine(o, h, g) : o \in OtherFields, h \in StealTicks, g \in GuestFields }
(* aggregate lines that lack the expected fields *)
MalformedLines ==
  { TagCpu \o Garbage \o Fields(<<5, 50, 800, 2, 1, 3, 40>>),
    TagCpu \o Fields(<<100, 5, 50, 800>>),
    TagCpu \o Fields(<<100, 5>>) \o Garbage \o Fields(<<800, 2, 1, 3, 40>>),
    TagCpu \o Fields(<<100, 5, 50, 800, 2>>) \o Garbage \o Fields(<<3, 40>>),
    TagCpu }
(* aggregate lines of kernels that report no steal field *)
ShortLines == { TagCpu \o Fields(<<100, 5, 50, 800, 2, 1, 3>>) }
PerCpuLines ==
  { TagCpu0 \o Fields(<<50, 2, 25, 400, 1, 0, s, 20, 0, 0>>) : s \in {0, 3} }
OtherLines == { TagIntr \o Fields(<<12, 7, 0, 0, 0, 0, 0, 0, 0>>) }

ProcStatFiles ==
  {NoFile, File(<<>>)}
  \cup { File(<<a>>) : a \in WellFormedLines \cup MalformedLines \cup ShortLines }
  \cup { File(<<a, b>>) : a \in WellFormedLines \cup MalformedLines \cup ShortLines,
                          b \in PerCpuLines }
  \cup { File(<<a, b>>) : a \in OtherLines, b \in WellFormedLines }

ClockTicks == {-1, 100, 1000}

(* the contents the loop meets: a file that does not open, and steal        *)
(* counters of 0 and 1 ticks                                                 *)
LoopFiles ==
  {NoFile}
  \cup { File(<<AggregateLine(<<100, 5, 50, 800, 2, 1, 3>>, h, <<0, 0>>)>>) : h \in 0..1 }

(* what VMGuestLib may answer *)
StolenMs == {0, 2}
GuestAnswers ==
  {GuestAnswer(FALSE, TRUE, 2), GuestAnswer(TRUE, FALSE, 2)}
  \cup { GuestAnswer(TRUE, TRUE, ms) : ms \in StolenMs }

(* what the loop meets at one sample: /proc/stat and VMGuestLib together,    *)
(* with different steal times                                                *)
LoopWorlds ==
  { [file |-> NoFile, guest |-> GuestAnswer(TRUE, TRUE, 2)],
    [file |-> File(<<AggregateLine(<<100, 5, 50, 800, 2, 1, 3>>, 0, <<0, 0>>)>>),
     guest |-> GuestAnswer(FALSE, TRUE, 2)],
    [file |-> File(<<AggregateLine(<<100, 5, 50, 800, 2, 1, 3>>, 1, <<0, 0>>)>>),
     guest |-> GuestAnswer(TRUE, TRUE, 0)] }

(* Command lines.  An option is its letter and its argument, a line of     *)
(* characters.                                                             *)
Option(o, a) == [opt |-> o, arg |-> a]
CharsOfDigits(ds) == [i \in 1..Len(ds) |-> DigitChars[ds[i] + 1]]
TwentyNines == CharsOfDigits([i \in 1..20 |-> 9])

(* -t: decimal numbers in 1..MAX_TIMEOUT; numbers outside, and text that   *)
(* is no number; numbers written with a sign, white space or zeros in front *)
ValidTimeoutArgs == { Dec(n) : n \in {1, 2, 3, DEFAULT_TIMEOUT, MAX_TIMEOUT - 1, MAX_TIMEOUT} }
InvalidTimeoutArgs ==
  { Dec(0), Dec(MAX_TIMEOUT + 1), <<"-">> \o Dec(1), TwentyNines,
    <<>>, <<"x">>, Dec(5) \o <<"x">>, Dec(5) \o <<" ">>, <<"1", ".", "5">> }
LenientTimeoutArgs == { <<"+">> \o Dec(5), <<" ">> \o Dec(7), <<"0">> \o Dec(9) }
(* -m: decimal numbers in 1..UINT32_MAX, as far as TLC's integers hold     *)
(* them; numbers outside, and text that is no integer                      *)
ValidThresholdArgs == { Dec(n) : n \in {1, 50, 2147483647} }
InvalidThresholdArgs ==
  { Dec(0), CharsOfDigits(<<4, 2, 9, 4, 9, 6, 7, 2, 9, 6>>), <<"-">> \o Dec(3),
    <<>>, <<"x">>, <<"1", ".", "5">> }
(* -P *)
ModeArgs ==
  { <<"o", "n">>, <<"O", "N">>, <<"o", "f", "f">>, <<"a", "u", "t", "o">>,
    <<"A", "u", "t", "o">>, <<"o", "n", "e">>, <<>> }

Options ==
  { Option("t", a) : a \in ValidTimeoutArgs \cup InvalidTimeoutArgs \cup LenientTimeoutArgs }
  \cup { Option("m", a) : a \in ValidThresholdArgs \cup InvalidThresholdArgs }
  \cup { Option("P", a) : a \in ModeArgs }
  \cup { Option("p", <<>>), Option("h", <<>>), Option("?", <<>>) }
MaxOptions == 2
CommandLines == UNION { [1..n -> Options] : n \in 0..MaxOptions }

Timeouts == {1, 2}
UserThreshold == 50
Thresholds == {DEFAULT_MAX_STEAL_THRESHOLD, UserThreshold}
PollErrnos == {"EINTR", "ENOMEM"}

(***************************************************************************)
(* State                                                                   *)
(***************************************************************************)
VARIABLES
  pc,                   \* where poll_run is
  timeout,              \* poll_run's argument, milliseconds
  max_steal_threshold,
  stop_main_loop, display_statistics,
  times_not_scheduled,
  tv_max_allowed_diff, poll_timeout, tv_start,
  tv_now, tv_prev,
  steal_now, steal_prev,
  exit_status,
  mono,                 \* CLOCK_MONOTONIC as last read
  stepped_back,         \* whether the clock has gone back
  procstat, clock_tick, \* /proc/stat as last read, sysconf(_SC_CLK_TCK)
  log_overrun,          \* "Not scheduled for" lines written
  log_steal,            \* "Steal time is >" lines written
  log_stopped,          \* "Main poll loop stopped" lines written
  events,               \* what the loop has done and written since it last
                        \* tested its condition
  polled_after_stop,    \* whether a poll call has begun with stop_main_loop set
  usr1_since_clear,     \* whether SIGUSR1 has come since display_statistics was cleared
  usr1_unserved,        \* whether SIGUSR1 has come since the last statistics line
  args,                 \* the options getopt has still to return
  set_prio, move_to_root_cgroup,
  max_steal_threshold_user_set, use_vmguestlib_stealtime,
  guestlib,             \* what VMGuestLib answers now
  startup               \* what main has done before poll_run

config == <<timeout, max_steal_threshold, tv_max_allowed_diff, poll_timeout, tv_start, clock_tick>>
flags == <<stop_main_loop, display_statistics>>
samples == <<tv_now, tv_prev, steal_now, steal_prev>>
pollst == <<exit_status>>
env == <<mono, stepped_back, procstat>>
logs == <<log_overrun, log_steal, log_stopped>>
watch == <<polled_after_stop, usr1_since_clear>>
mainst == <<args, set_prio, move_to_root_cgroup, max_steal_threshold_user_set,
            use_vmguestlib_stealtime, guestlib, startup>>
vars == <<pc, config, flags, times_not_scheduled, samples, pollst, env, logs, events,
          watch, usr1_unserved, mainst>>

(* A double that is a quotient times 100, as the fraction num / den.  With  *)
(* den = 0 it is the IEEE result of dividing by zero: +inf when num > 0,    *)
(* NaN when num = 0.                                                        *)
Percent(n, d) == [num |-> n * 100, den |-> d]
(* x > t for a double x and a finite t >= 0; every comparison with NaN is   *)
(* false.                                                                   *)
DoubleGT(x, t) == IF x.den = 0 THEN x.num > 0 ELSE x.num > t * x.den

(* clock_gettime(CLOCK_MONOTONIC) in nano_current_get: the values a read can *)
(* return when the clock stood at m: the time that has passed since is any  *)
(* amount, none included.                                                   *)
nano_current_get(m) == m..MaxClock
(* the clock after a read of t *)
ClockRead(t) == mono' = t /\ UNCHANGED stepped_back

(* poll_run is running, from its first line to the last line of its loop *)
LoopPcs == {"entry", "while", "steal_prev", "tv_prev", "if_display", "print", "clear",
            "poll", "in_poll", "tv_now", "steal_now", "classify", "final"}
Running == pc \in LoopPcs

Init ==
  /\ pc = "entry"
  /\ timeout \in Timeouts
  /\ max_steal_threshold \in Thresholds
  /\ stop_main_loop = 0 /\ display_statistics = 0
  /\ times_not_scheduled = 0
  /\ tv_max_allowed_diff = 0 /\ poll_timeout = 0 /\ tv_start = 0
  /\ tv_now = 0 /\ tv_prev = 0
  /\ steal_now = 0 /\ steal_prev = 0
  /\ exit_status = -1
  /\ mono = 0 /\ stepped_back = FALSE
  /\ procstat = NoFile
  /\ clock_tick = 1000
  /\ log_overrun = 0 /\ log_steal = 0 /\ log_stopped = 0
  /\ events = <<>>
  /\ polled_after_stop = FALSE /\ usr1_since_clear = FALSE /\ usr1_unserved = FALSE
  /\ args = <<>>
  /\ set_prio = 1 /\ move_to_root_cgroup = MOVE_TO_ROOT_CGROUP_MODE_AUTO
  /\ max_steal_threshold_user_set = 0 /\ use_vmguestlib_stealtime = 0
  /\ guestlib = GuestAnswer(FALSE, FALSE, 0)
  /\ startup = <<>>

(***************************************************************************)
(* print_statistics and the steps of poll_run                              *)
(***************************************************************************)
(* print_statistics(tv_start), t being what its clock read returns: the     *)
(* line it writes                                                           *)
StatsLineNoCount(t) == [ev |-> "stats", diff |-> U64(t - tv_start), count |-> 0]
(* the variant that writes the clock read instead of its distance to tv_start *)
StatsLineAbsolute(t) == [ev |-> "stats", diff |-> U64(t), count |-> times_not_scheduled]
StatsLine(t) == [ev |-> "stats", diff |-> U64(t - tv_start), count |-> times_not_scheduled]

print_statistics(t) ==
  /\ ClockRead(t)
  /\ usr1_unserved' = FALSE
  /\ events' = Append(events, StatsLine(t))

(* tv_max_allowed_diff = timeout * NO_NS_IN_MSEC; poll_timeout = timeout / 3 *)
MaxAllowedDiff(t) == U64(t * NO_NS_IN_MSEC)
(* the variant with half of the timeout *)
PollTimeoutHalf(t) == t \div 2
PollTimeout(t) == t \div 3

Entry ==
  /\ pc = "entry"
  /\ tv_max_allowed_diff' = MaxAllowedDiff(timeout)
  /\ poll_timeout' = PollTimeout(timeout)
  /\ \E t \in nano_current_get(mono) : tv_start' = t /\ ClockRead(t)
  /\ pc' = "while"
  /\ UNCHANGED <<mainst, usr1_unserved, timeout, max_steal_threshold, clock_tick, flags, times_not_scheduled,
                 samples, pollst, procstat, logs, events, watch>>

(* while (!stop_main_loop), and the variant while (1) *)
LoopForever(stop) == FALSE
LoopExits(stop) == stop # 0

LoopTest ==
  /\ pc = "while"
  /\ pc' = IF LoopExits(stop_main_loop) THEN "final" ELSE "steal_prev"
  /\ events' = <<>>
  /\ UNCHANGED <<mainst, usr1_unserved, config, flags, times_not_scheduled, samples, pollst, env, logs,
                 watch>>

(* steal_prev = steal_now = nano_stealtime_get() *)
SamplePrevSteal ==
  /\ pc = "steal_prev"
  /\ \E w \in LoopWorlds :
       LET res == nano_stealtime_get(use_vmguestlib_stealtime, w.file, w.guest, clock_tick)
       IN /\ steal_now' = res
          /\ steal_prev' = steal_now'
          /\ events' = Append(events, [ev |-> "steal", val |-> res])
  /\ pc' = "tv_prev"
  /\ UNCHANGED <<mainst, usr1_unserved, config, flags, times_not_scheduled, tv_now, tv_prev, pollst, env,
                 logs, watch>>

(* tv_prev = tv_now = nano_current_get() *)
SamplePrevClock ==
  /\ pc = "tv_prev"
  /\ \E t \in nano_current_get(mono) :
       /\ tv_now' = t
       /\ tv_prev' = tv_now'
       /\ ClockRead(t)
       /\ events' = Append(events, [ev |-> "clock", val |-> t])
  /\ pc' = "if_display"
  /\ UNCHANGED <<mainst, usr1_unserved, config, flags, times_not_scheduled, steal_now, steal_prev, pollst,
                 procstat, logs, watch>>

(* if (display_statistics) *)
TestDisplay ==
  /\ pc = "if_display"
  /\ pc' = IF display_statistics # 0 THEN "print" ELSE "poll"
  /\ UNCHANGED <<mainst, usr1_unserved, config, flags, times_not_scheduled, samples, pollst, env, logs, events,
                 watch>>

(* print_statistics(tv_start) of the report request *)
PrintRequested ==
  /\ pc = "print"
  /\ \E t \in nano_current_get(mono) : print_statistics(t)
  /\ pc' = "clear"
  /\ UNCHANGED <<mainst, config, flags, times_not_scheduled, samples, pollst, procstat, logs,
                 watch>>

(* the variant that leaves display_statistics as it is *)
ClearSkipped ==
  /\ pc = "clear"
  /\ display_statistics' = display_statistics
  /\ pc' = "poll"
  /\ events' = Append(events, [ev |-> "clear"])
  /\ usr1_since_clear' = FALSE
  /\ UNCHANGED <<mainst, usr1_unserved, config, stop_main_loop, times_not_scheduled, samples, pollst, env,
                 logs, polled_after_stop>>

(* display_statistics = 0 *)
ClearDisplay ==
  /\ pc = "clear"
  /\ display_statistics' = 0
  /\ pc' = "poll"
  /\ events' = Append(events, [ev |-> "clear"])
  /\ usr1_since_clear' = FALSE
  /\ UNCHANGED <<mainst, usr1_unserved, config, stop_main_loop, times_not_scheduled, samples, pollst, env,
                 logs, polled_after_stop>>

(* the variant of the iteration without its call of poll *)
PollSkipped ==
  /\ pc = "poll"
  /\ poll_timeout' = IF poll_timeout < 0 THEN 0 ELSE poll_timeout
  /\ pc' = "tv_now"
  /\ UNCHANGED <<mainst, usr1_unserved, timeout, max_steal_threshold, tv_max_allowed_diff, tv_start,
                 clock_tick, flags, times_not_scheduled, samples, pollst, env, logs, events,
                 watch>>

(* if (poll_timeout < 0) poll_timeout = 0; poll(NULL, 0, poll_timeout) is   *)
(* entered                                                                  *)
PollCall ==
  /\ pc = "poll"
  /\ poll_timeout' = IF poll_timeout < 0 THEN 0 ELSE poll_timeout
  /\ polled_after_stop' = (polled_after_stop \/ stop_main_loop # 0)
  /\ pc' = "in_poll"
  /\ events' = Append(events, [ev |-> "poll"])
  /\ UNCHANGED <<mainst, usr1_unserved, timeout, max_steal_threshold, tv_max_allowed_diff, tv_start,
                 clock_tick, flags, times_not_scheduled, samples, pollst, env, logs,
                 usr1_since_clear>>

(* if (poll_res == -1) { if (errno != EINTR) { ...; exit(2); } }, and the  *)
(* variant without the test of errno                                       *)
PollFailed(res, e) == res = -1
PollFatal(res, e) == res = -1 /\ e # "EINTR"

(* the variant of the return of poll with a test of stop_main_loop behind   *)
(* it: if (stop_main_loop) break                                            *)
PollReturnBreaks ==
  /\ pc = "in_poll"
  /\ \E r \in {"timeout"} \cup PollErrnos :
       LET poll_res == IF r = "timeout" THEN 0 ELSE -1
           errno == IF r = "timeout" THEN "0" ELSE r
       IN /\ events' = Append(events, [ev |-> "poll_returned", res |-> poll_res, errno |-> errno])
          /\ IF PollFatal(poll_res, errno)
             THEN exit_status' = EXIT_POLL_ERROR /\ pc' = "exit"
             ELSE /\ exit_status' = exit_status
                  /\ pc' = IF stop_main_loop # 0 THEN "final" ELSE "tv_now"
  /\ UNCHANGED <<mainst, usr1_unserved, config, flags, times_not_scheduled, samples, env, logs,
                 watch>>

(* poll returns: 0 after the timeout, -1 with errno set otherwise; then the *)
(* test of poll_res and errno, and exit(2)                                  *)
PollReturn ==
  /\ pc = "in_poll"
  /\ \E r \in {"timeout"} \cup PollErrnos :
       LET poll_res == IF r = "timeout" THEN 0 ELSE -1
           errno == IF r = "timeout" THEN "0" ELSE r
       IN /\ events' = Append(events, [ev |-> "poll_returned", res |-> poll_res, errno |-> errno])
          /\ IF PollFatal(poll_res, errno)
             THEN exit_status' = EXIT_POLL_ERROR /\ pc' = "exit"
             ELSE exit_status' = exit_status /\ pc' = "tv_now"
  /\ UNCHANGED <<mainst, usr1_unserved, config, flags, times_not_scheduled, samples, env, logs,
                 watch>>

(* tv_now = nano_current_get() *)
SampleNowClock ==
  /\ pc = "tv_now"
  /\ \E t \in nano_current_get(mono) :
       /\ tv_now' = t
       /\ ClockRead(t)
       /\ events' = Append(events, [ev |-> "clock", val |-> t])
  /\ pc' = "steal_now"
  /\ UNCHANGED <<mainst, usr1_unserved, config, flags, times_not_scheduled, tv_prev, steal_now, steal_prev,
                 pollst, procstat, logs, watch>>

(* steal_now = nano_stealtime_get() *)
SampleNowSteal ==
  /\ pc = "steal_now"
  /\ \E w \in LoopWorlds :
       LET res == nano_stealtime_get(use_vmguestlib_stealtime, w.file, w.guest, clock_tick)
       IN /\ steal_now' = res
          /\ events' = Append(events, [ev |-> "steal", val |-> res])
  /\ pc' = "classify"
  /\ UNCHANGED <<mainst, usr1_unserved, config, flags, times_not_scheduled, tv_now, tv_prev, steal_prev,
                 pollst, env, logs, watch>>

(* The locals the iteration computes from its four samples and reads before *)
(* any of the four is assigned again:                                       *)
(*   tv_diff = tv_now - tv_prev                                             *)
(*   steal_diff = steal_now - steal_prev                                    *)
(*   steal_perc = ((double)steal_diff / tv_diff) * (double)100              *)
tv_diff == U64(tv_now - tv_prev)
steal_diff == U64(steal_now - steal_prev)
(* the variant that takes the steal counter for its difference *)
steal_perc_of_counter == Percent(steal_now, tv_diff)
steal_perc == Percent(steal_diff, tv_diff)

(* if (tv_diff > tv_max_allowed_diff), and the variant with >= *)
IsOverrunOrEqual(diff, max) == diff >= max
IsOverrun(diff, max) == diff > max
(* if (steal_perc > max_steal_threshold), and the variant with >= *)
IsStealAlarmOrEqual(perc, threshold) ==
  IF perc.den = 0 THEN perc.num > 0 ELSE perc.num >= threshold * perc.den
IsStealAlarm(perc, threshold) == DoubleGT(perc, threshold)
(* times_not_scheduled++, and the variant that adds 2 *)
IncrementedTwice(n) == U64(n + 2)
Incremented(n) == U64(n + 1)

(* the classification, its two log lines and times_not_scheduled++ *)
Classify ==
  /\ pc = "classify"
  /\ IF IsOverrun(tv_diff, tv_max_allowed_diff)
     THEN /\ log_overrun' = log_overrun + 1
          /\ log_steal' = IF IsStealAlarm(steal_perc, max_steal_threshold)
                          THEN log_steal + 1 ELSE log_steal
          /\ times_not_scheduled' = Incremented(times_not_scheduled)
     ELSE UNCHANGED <<log_overrun, log_steal, times_not_scheduled>>
  /\ pc' = "while"
  /\ events' = Append(events, [ev |-> "classify",
                                perc |-> steal_perc,
                                overrun |-> IsOverrun(tv_diff, tv_max_allowed_diff),
                                alarm |-> IsOverrun(tv_diff, tv_max_allowed_diff)
                                          /\ IsStealAlarm(steal_perc, max_steal_threshold)])
  /\ UNCHANGED <<mainst, usr1_unserved, config, flags, samples, pollst, env, log_stopped, watch>>

(* "Main poll loop stopped"; print_statistics(tv_start) *)
FinalPrint ==
  /\ pc = "final"
  /\ log_stopped' = log_stopped + 1
  /\ \E t \in nano_current_get(mono) : print_statistics(t)
  /\ pc' = "done"
  /\ UNCHANGED <<mainst, config, flags, times_not_scheduled, samples, pollst, procstat,
                 log_overrun, log_steal, watch>>

(***************************************************************************)
(* The clock anomaly: CLOCK_MONOTONIC goes back (a guest resumed or        *)
(* migrated by its hypervisor; nano_current_get does not look at what      *)
(* clock_gettime returns).  The model lets it happen while the process is  *)
(* suspended in poll, and once in a run.                                   *)
(***************************************************************************)
ClockStepsBack ==
  /\ pc = "in_poll"
  /\ ~stepped_back
  /\ \E t \in 0..(mono - 1) : mono' = t
  /\ stepped_back' = TRUE
  /\ UNCHANGED <<mainst, usr1_unserved, pc, config, flags, times_not_scheduled, samples, pollst, procstat,
                 logs, events, watch>>

(***************************************************************************)
(* Signal handlers                                                         *)
(***************************************************************************)
(* the variant that takes the request for statistics back as well *)
signal_int_handler_clears ==
  /\ Running
  /\ stop_main_loop' = 1
  /\ display_statistics' = 0
  /\ UNCHANGED <<mainst, usr1_unserved, pc, config, times_not_scheduled, samples, pollst,
                 env, logs, events, watch>>

(* SIGINT, SIGTERM: stop_main_loop = 1 *)
signal_int_handler ==
  /\ Running
  /\ stop_main_loop' = 1
  /\ UNCHANGED <<mainst, usr1_unserved, pc, config, display_statistics, times_not_scheduled, samples, pollst,
                 env, logs, events, watch>>

(* SIGUSR1: display_statistics = 1 *)
signal_usr1_handler ==
  /\ Running
  /\ display_statistics' = 1
  /\ usr1_since_clear' = TRUE
  /\ usr1_unserved' = TRUE
  /\ UNCHANGED <<mainst, pc, config, stop_main_loop, times_not_scheduled, samples, pollst,
                 env, logs, events, polled_after_stop>>

LoopStep ==
  \/ Entry \/ LoopTest \/ SamplePrevSteal \/ SamplePrevClock \/ TestDisplay
  \/ PrintRequested \/ ClearDisplay \/ PollCall \/ PollReturn \/ SampleNowClock
  \/ SampleNowSteal \/ Classify \/ FinalPrint

Next == LoopStep \/ signal_int_handler \/ signal_usr1_handler \/ ClockStepsBack

Spec == Init /\ [][Next]_vars

(* The process is scheduled again and again, and poll returns.  The steal   *)
(* threshold has no part in what the loop does next, and is the default.    *)
InitFair == Init /\ max_steal_threshold = DEFAULT_MAX_STEAL_THRESHOLD
FairSpec == InitFair /\ [][Next]_vars /\ WF_vars(LoopStep)

(***************************************************************************)
(* main, at the program's own scale: from getopt to the first lines of     *)
(* poll_run.  -d, -D and -f, the detaching from the terminal and           *)
(* utils_mlockall are left out.                                            *)
(***************************************************************************)
InitMain ==
  /\ pc = "getopt"
  /\ args \in CommandLines
  /\ timeout = DEFAULT_TIMEOUT
  /\ set_prio = 1
  /\ move_to_root_cgroup = MOVE_TO_ROOT_CGROUP_MODE_AUTO
  /\ max_steal_threshold = DEFAULT_MAX_STEAL_THRESHOLD
  /\ max_steal_threshold_user_set = 0
  /\ use_vmguestlib_stealtime = 0
  /\ guestlib = GuestAnswer(FALSE, FALSE, 0)
  /\ startup = <<>>
  /\ stop_main_loop = 0 /\ display_statistics = 0
  /\ times_not_scheduled = 0
  /\ tv_max_allowed_diff = 0 /\ poll_timeout = 0 /\ tv_start = 0
  /\ tv_now = 0 /\ tv_prev = 0
  /\ steal_now = 0 /\ steal_prev = 0
  /\ exit_status = -1
  /\ mono = 0 /\ stepped_back = FALSE
  /\ procstat = NoFile
  /\ clock_tick = 1000
  /\ log_overrun = 0 /\ log_steal = 0 /\ log_stopped = 0
  /\ events = <<>>
  /\ polled_after_stop = FALSE /\ usr1_since_clear = FALSE /\ usr1_unserved = FALSE

loopst == <<flags, times_not_scheduled, tv_start, clock_tick, samples, env, logs, events,
            watch, usr1_unserved, guestlib>>

(* errx(1, ...), and exit(1) after usage() *)
Errx ==
  /\ exit_status' = EXIT_ERRX
  /\ pc' = "exit"
  /\ UNCHANGED <<timeout, max_steal_threshold, max_steal_threshold_user_set, set_prio,
                 move_to_root_cgroup>>

(* getopt returns -1 *)
GetoptEnd ==
  /\ pc = "getopt" /\ args = <<>>
  /\ pc' = "move_on"
  /\ UNCHANGED <<loopst, args, timeout, max_steal_threshold, max_steal_threshold_user_set,
                 set_prio, move_to_root_cgroup, use_vmguestlib_stealtime, startup,
                 tv_max_allowed_diff, poll_timeout, exit_status>>

(* getopt returns the next option; main's record of it *)
Got(o) == [ev |-> "getopt", option |-> o]
Getopt(o) ==
  /\ pc = "getopt" /\ args # <<>> /\ Head(args).opt = o
  /\ args' = Tail(args)
  /\ startup' = Append(startup, Got(Head(args)))

(* case 'm' *)
OptionM ==
  /\ Getopt("m")
  /\ LET r == util_strtonum(Head(args).arg, LongLong(FALSE, Wide(1)), LongLong(FALSE, UINT32_MAX))
     IN IF r.res # 0 THEN Errx
        ELSE /\ max_steal_threshold_user_set' = 1
             /\ max_steal_threshold' = WideToInt(r.val.mag)
             /\ pc' = "getopt"
             /\ UNCHANGED <<timeout, set_prio, move_to_root_cgroup, exit_status>>
  /\ UNCHANGED <<loopst, use_vmguestlib_stealtime, tv_max_allowed_diff, poll_timeout>>

(* case 't', with 0 let through *)
OptionTFromZero ==
  /\ Getopt("t")
  /\ LET r == util_strtonum(Head(args).arg, LongLong(FALSE, Wide(0)), LongLong(FALSE, Wide(MAX_TIMEOUT)))
     IN IF r.res # 0 THEN Errx
        ELSE /\ timeout' = WideToInt(r.val.mag)
             /\ pc' = "getopt"
             /\ UNCHANGED <<max_steal_threshold, max_steal_threshold_user_set, set_prio,
                            move_to_root_cgroup, exit_status>>
  /\ UNCHANGED <<loopst, use_vmguestlib_stealtime, tv_max_allowed_diff, poll_timeout>>

(* case 't' *)
OptionT ==
  /\ Getopt("t")
  /\ LET r == util_strtonum(Head(args).arg, LongLong(FALSE, Wide(1)), LongLong(FALSE, Wide(MAX_TIMEOUT)))
     IN IF r.res # 0 THEN Errx
        ELSE /\ timeout' = WideToInt(r.val.mag)
             /\ pc' = "getopt"
             /\ UNCHANGED <<max_steal_threshold, max_steal_threshold_user_set, set_prio,
                            move_to_root_cgroup, exit_status>>
  /\ UNCHANGED <<loopst, use_vmguestlib_stealtime, tv_max_allowed_diff, poll_timeout>>

(* strcasecmp(a, b) == 0 *)
ToLower(c) ==
  CASE c = "A" -> "a" [] c = "F" -> "f" [] c = "N" -> "n" [] c = "O" -> "o"
    [] c = "T" -> "t" [] c = "U" -> "u" [] OTHER -> c
SameIgnoringCase(a, b) ==
  Len(a) = Len(b) /\ \A i \in 1..Len(a) : ToLower(a[i]) = ToLower(b[i])

(* case 'P' *)
OptionP ==
  /\ Getopt("P")
  /\ LET a == Head(args).arg
     IN IF SameIgnoringCase(a, <<"o", "n">>)
        THEN /\ move_to_root_cgroup' = MOVE_TO_ROOT_CGROUP_MODE_ON
             /\ pc' = "getopt"
             /\ UNCHANGED <<timeout, max_steal_threshold, max_steal_threshold_user_set,
                            set_prio, exit_status>>
        ELSE IF SameIgnoringCase(a, <<"o", "f", "f">>)
        THEN /\ move_to_root_cgroup' = MOVE_TO_ROOT_CGROUP_MODE_OFF
             /\ pc' = "getopt"
             /\ UNCHANGED <<timeout, max_steal_threshold, max_steal_threshold_user_set,
                            set_prio, exit_status>>
        ELSE IF SameIgnoringCase(a, <<"a", "u", "t", "o">>)
        THEN /\ move_to_root_cgroup' = MOVE_TO_ROOT_CGROUP_MODE_AUTO
             /\ pc' = "getopt"
             /\ UNCHANGED <<timeout, max_steal_threshold, max_steal_threshold_user_set,
                            set_prio, exit_status>>
        ELSE Errx
  /\ UNCHANGED <<loopst, use_vmguestlib_stealtime, tv_max_allowed_diff, poll_timeout>>

(* case 'p' *)
OptionNoPrio ==
  /\ Getopt("p")
  /\ set_prio' = 0
  /\ pc' = "getopt"
  /\ UNCHANGED <<loopst, timeout, max_steal_threshold, max_steal_threshold_user_set,
                 move_to_root_cgroup, use_vmguestlib_stealtime, tv_max_allowed_diff,
                 poll_timeout, exit_status>>

(* case 'h', case '?': usage(); exit(1) *)
OptionHelp ==
  /\ \E o \in {"h", "?"} : Getopt(o)
  /\ Errx
  /\ UNCHANGED <<loopst, use_vmguestlib_stealtime, tv_max_allowed_diff, poll_timeout>>

(* what main has done: a call of utils_move_to_root_cgroup, a call of       *)
(* utils_set_rr_scheduler with its argument and its result                  *)
Moved == [ev |-> "utils_move_to_root_cgroup"]
Scheduled(silent, res) == [ev |-> "utils_set_rr_scheduler", silent |-> silent, res |-> res]
SchedulerResults == {0, -1}

mainlocals == <<args, timeout, max_steal_threshold, max_steal_threshold_user_set, set_prio,
                move_to_root_cgroup, tv_max_allowed_diff, poll_timeout, exit_status>>

(* the variant with != MOVE_TO_ROOT_CGROUP_MODE_OFF *)
MoveIfNotOff ==
  /\ pc = "move_on"
  /\ startup' = IF move_to_root_cgroup # MOVE_TO_ROOT_CGROUP_MODE_OFF
                 THEN Append(startup, Moved) ELSE startup
  /\ pc' = "set_prio"
  /\ UNCHANGED <<loopst, mainlocals, use_vmguestlib_stealtime>>

(* if (move_to_root_cgroup == MOVE_TO_ROOT_CGROUP_MODE_ON) *)
MoveIfOn ==
  /\ pc = "move_on"
  /\ startup' = IF move_to_root_cgroup = MOVE_TO_ROOT_CGROUP_MODE_ON
                 THEN Append(startup, Moved) ELSE startup
  /\ pc' = "set_prio"
  /\ UNCHANGED <<loopst, mainlocals, use_vmguestlib_stealtime>>

(* if (set_prio) { silent = ...; if (utils_set_rr_scheduler(silent) == -1 && *)
(* move_to_root_cgroup == MOVE_TO_ROOT_CGROUP_MODE_AUTO)                     *)
SetPrio ==
  /\ pc = "set_prio"
  /\ IF set_prio # 0
     THEN LET silent == IF move_to_root_cgroup = MOVE_TO_ROOT_CGROUP_MODE_AUTO THEN 1 ELSE 0
          IN \E res \in SchedulerResults :
               /\ startup' = Append(startup, Scheduled(silent, res))
               /\ pc' = IF res = -1 /\ move_to_root_cgroup = MOVE_TO_ROOT_CGROUP_MODE_AUTO
                         THEN "retry" ELSE "signals"
     ELSE startup' = startup /\ pc' = "signals"
  /\ UNCHANGED <<loopst, mainlocals, use_vmguestlib_stealtime>>

(* utils_move_to_root_cgroup(); (void)utils_set_rr_scheduler(0); *)
SetPrioAgain ==
  /\ pc = "retry"
  /\ \E res \in SchedulerResults :
       startup' = startup \o <<Moved, Scheduled(0, res)>>
  /\ pc' = "signals"
  /\ UNCHANGED <<loopst, mainlocals, use_vmguestlib_stealtime>>

signal_handlers_register ==
  /\ pc = "signals"
  /\ startup' = Append(startup, [ev |-> "signal_handlers_register"])
  /\ pc' = "guestlib"
  /\ UNCHANGED <<loopst, mainlocals, use_vmguestlib_stealtime>>

(* the variant of guestlib_init without the test of                         *)
(* max_steal_threshold_user_set                                            *)
guestlib_init_overrides ==
  /\ pc = "guestlib"
  /\ \E opened \in BOOLEAN :
       /\ startup' = Append(startup, [ev |-> "guestlib_init", opened |-> opened])
       /\ use_vmguestlib_stealtime' = IF opened THEN 1 ELSE use_vmguestlib_stealtime
       /\ max_steal_threshold' =
            IF opened
            THEN DEFAULT_MAX_STEAL_THRESHOLD_GL ELSE max_steal_threshold
  /\ pc' = "poll_run"
  /\ UNCHANGED <<loopst, args, timeout, max_steal_threshold_user_set, set_prio,
                 move_to_root_cgroup, tv_max_allowed_diff, poll_timeout, exit_status>>

(* guestlib_init: opened is whether VMGuestLib_OpenHandle succeeds; it is    *)
(* FALSE in a build without HAVE_VMGUESTLIB                                  *)
guestlib_init ==
  /\ pc = "guestlib"
  /\ \E opened \in BOOLEAN :
       /\ startup' = Append(startup, [ev |-> "guestlib_init", opened |-> opened])
       /\ use_vmguestlib_stealtime' = IF opened THEN 1 ELSE use_vmguestlib_stealtime
       /\ max_steal_threshold' =
            IF opened /\ max_steal_threshold_user_set = 0
            THEN DEFAULT_MAX_STEAL_THRESHOLD_GL ELSE max_steal_threshold
  /\ pc' = "poll_run"
  /\ UNCHANGED <<loopst, args, timeout, max_steal_threshold_user_set, set_prio,
                 move_to_root_cgroup, tv_max_allowed_diff, poll_timeout, exit_status>>

(* poll_run(timeout), its first two lines without the scale of the loop:    *)
(* tv_max_allowed_diff is a wide number here                                 *)
MaxAllowedDiffExact(t) == WideU64(WideMul(Wide(t), NO_NS_IN_MSEC_ULL))

PollRunEntered ==
  /\ pc = "poll_run"
  /\ tv_max_allowed_diff' = MaxAllowedDiffExact(timeout)
  /\ poll_timeout' = PollTimeout(timeout)
  /\ startup' = Append(startup, [ev |-> "poll_run"])
  /\ pc' = "loop"
  /\ UNCHANGED <<loopst, args, timeout, max_steal_threshold, max_steal_threshold_user_set,
                 set_prio, move_to_root_cgroup, use_vmguestlib_stealtime, exit_status>>

MainStep ==
  \/ GetoptEnd \/ OptionM \/ OptionT \/ OptionP \/ OptionNoPrio \/ OptionHelp
  \/ MoveIfOn \/ SetPrio \/ SetPrioAgain \/ signal_handlers_register \/ guestlib_init
  \/ PollRunEntered

SpecMain == InitMain /\ [][MainStep]_vars

(***************************************************************************)
(* nano_stealtime_get on its own: every content of /proc/stat and every    *)
(* answer of sysconf(_SC_CLK_TCK), one call.                               *)
(***************************************************************************)
InitSteal ==
  /\ pc = "steal_call"
  /\ timeout = 1
  /\ max_steal_threshold = DEFAULT_MAX_STEAL_THRESHOLD
  /\ stop_main_loop = 0 /\ display_statistics = 0
  /\ times_not_scheduled = 0
  /\ tv_max_allowed_diff = 0 /\ poll_timeout = 0 /\ tv_start = 0
  /\ tv_now = 0 /\ tv_prev = 0
  /\ steal_now = 0 /\ steal_prev = 0
  /\ exit_status = -1
  /\ mono = 0 /\ stepped_back = FALSE
  /\ procstat \in ProcStatFiles
  /\ clock_tick \in ClockTicks
  /\ log_overrun = 0 /\ log_steal = 0 /\ log_stopped = 0
  /\ events = <<>>
  /\ polled_after_stop = FALSE /\ usr1_since_clear = FALSE /\ usr1_unserved = FALSE
  /\ args = <<>>
  /\ set_prio = 1 /\ move_to_root_cgroup = MOVE_TO_ROOT_CGROUP_MODE_AUTO
  /\ max_steal_threshold_user_set = 0
  /\ use_vmguestlib_stealtime \in {0, 1}
  /\ guestlib \in GuestAnswers
  /\ startup = <<>>

StealCall ==
  /\ pc = "steal_call"
  /\ steal_now' = nano_stealtime_get(use_vmguestlib_stealtime, procstat, guestlib, clock_tick)
  /\ pc' = "steal_ret"
  /\ UNCHANGED <<mainst, usr1_unserved, config, flags, times_not_scheduled, tv_now, tv_prev, steal_prev,
                 pollst, env, logs, events, watch>>

(* the caller goes on, and VMGuestLib has another answer at the next call *)
StealReturn ==
  /\ pc = "steal_ret"
  /\ guestlib' \in GuestAnswers
  /\ pc' = "steal_call"
  /\ UNCHANGED <<config, flags, times_not_scheduled, samples, pollst, env, logs, events,
                 watch, usr1_unserved, args, set_prio, move_to_root_cgroup,
                 max_steal_threshold_user_set, use_vmguestlib_stealtime, startup>>

NextSteal == StealCall \/ StealReturn

SpecSteal == InitSteal /\ [][NextSteal]_vars

(***************************************************************************)
(* The program in its three parts, each at its own scale: main up to the   *)
(* first lines of poll_run, the steal-time readers, and poll_run as main   *)
(* calls it when VMGuestLib_OpenHandle has succeeded: steal time from      *)
(* VMGuestLib, the threshold DEFAULT_MAX_STEAL_THRESHOLD_GL.               *)
(***************************************************************************)
GuestTimeouts == {1, 3}

InitGuestLoop ==
  /\ pc = "entry"
  /\ timeout \in GuestTimeouts
  /\ max_steal_threshold = DEFAULT_MAX_STEAL_THRESHOLD_GL
  /\ stop_main_loop = 0 /\ display_statistics = 0
  /\ times_not_scheduled = 0
  /\ tv_max_allowed_diff = 0 /\ poll_timeout = 0 /\ tv_start = 0
  /\ tv_now = 0 /\ tv_prev = 0
  /\ steal_now = 0 /\ steal_prev = 0
  /\ exit_status = -1
  /\ mono = 0 /\ stepped_back = FALSE
  /\ procstat = NoFile
  /\ clock_tick = 1000
  /\ log_overrun = 0 /\ log_steal = 0 /\ log_stopped = 0
  /\ events = <<>>
  /\ polled_after_stop = FALSE /\ usr1_since_clear = FALSE /\ usr1_unserved = FALSE
  /\ args = <<>>
  /\ set_prio = 1 /\ move_to_root_cgroup = MOVE_TO_ROOT_CGROUP_MODE_AUTO
  /\ max_steal_threshold_user_set = 0
  /\ use_vmguestlib_stealtime = 1
  /\ guestlib = GuestAnswer(FALSE, FALSE, 0)
  /\ startup = <<>>

InitProgram == InitMain \/ InitSteal \/ InitGuestLoop
NextProgram == MainStep \/ NextSteal \/ Next

SpecProgram == InitProgram /\ [][NextProgram]_vars

(***************************************************************************)
(* What one iteration has measured, read from its events                   *)
(***************************************************************************)
Last(q) == q[Len(q)]
ClockSamples == SelectSeq(events, LAMBDA e : e.ev = "clock")
StealSamples == SelectSeq(events, LAMBDA e : e.ev = "steal")
(* an iteration has just been classified *)
Classified == pc = "while" /\ events # <<>> /\ Last(events).ev = "classify"
(* the two clock samples and the two steal samples of the iteration *)
ClockPrev == ClockSamples[1].val
ClockNow == ClockSamples[2].val
StealPrev == StealSamples[1].val
StealNow == StealSamples[2].val
(* the elapsed time the iteration measures, an unsigned 64-bit difference *)
Elapsed == U64(ClockNow - ClockPrev)
(* the configured maximum gap in clock units *)
Gap == timeout * NO_NS_IN_MSEC
(* the step that classifies *)
ClassifyStep == pc = "classify" /\ pc' = "while"
(* what the step that classifies is about to find measured *)
ElapsedAtClassify == U64(tv_now - tv_prev)

(***************************************************************************)
(* C1: for every configured maximum gap G and every elapsed time E that an *)
(* iteration of poll_run measures, the iteration is classified as an       *)
(* overrun (the "Not scheduled for" line is written) if and only if E > G; *)
(* with E = G it is not.                                                   *)
(***************************************************************************)
C1_OverrunIffElapsedExceedsGap ==
  Classified =>
    /\ Len(ClockSamples) = 2
    /\ Last(events).overrun <=> Elapsed > Gap
    /\ Elapsed = Gap => ~Last(events).overrun

(* an iteration that measured exactly the gap and is not an overrun *)
C1_Witness ==
  Classified /\ Elapsed = Gap /\ ~Last(events).overrun /\ log_overrun = 0

(***************************************************************************)
(* C2: times_not_scheduled never decreases; the step that classifies an    *)
(* iteration as an overrun adds exactly 1 to it; no other step (the        *)
(* classification of an iteration that is no overrun, a signal handler, a  *)
(* statistics line) changes it.                                            *)
(***************************************************************************)
C2_CounterCountsOverruns ==
  [][ /\ times_not_scheduled' >= times_not_scheduled
      /\ (ClassifyStep /\ ElapsedAtClassify > Gap)
            => times_not_scheduled' = times_not_scheduled + 1
      /\ ~(ClassifyStep /\ ElapsedAtClassify > Gap)
            => times_not_scheduled' = times_not_scheduled ]_vars

(* two overruns counted, and then an iteration that is none *)
C2_Witness ==
  Classified /\ times_not_scheduled = 2 /\ ~Last(events).overrun

(***************************************************************************)
(* C3: a stop request is not missed and is served within one poll: once    *)
(* stop_main_loop is set (at any point, between the test of the loop       *)
(* condition and poll included) it stays set, at most one call of poll     *)
(* begins after it was set, and, poll returning, the loop ends.            *)
(***************************************************************************)
PollBegins == pc = "poll" /\ pc' = "in_poll"
Terminated == pc \in {"done", "exit"}

C3_StopServedWithinOnePoll ==
  /\ [][stop_main_loop = 1 => stop_main_loop' = 1]_vars
  /\ [][(PollBegins /\ stop_main_loop = 1) => ~polled_after_stop]_vars
  /\ (stop_main_loop = 1) ~> Terminated

(* the stop came between the test of the loop condition and poll: one poll *)
(* began with the flag set, and the loop has ended                         *)
C3_Witness ==
  pc = "done" /\ polled_after_stop /\ stop_main_loop = 1

(***************************************************************************)
(* C4: when the loop ends because stop_main_loop was seen set, exactly one *)
(* final statistics line is written, after the last measurement of the     *)
(* last iteration (nothing is sampled between the test of the loop         *)
(* condition and the line, nor after it), and the count it reports is the  *)
(* number of iterations classified as overruns since the loop was entered, *)
(* whether or not display_statistics is set at that moment.                *)
(***************************************************************************)
C4_OneFinalSnapshot ==
  pc = "done" =>
    /\ stop_main_loop = 1
    /\ log_stopped = 1
    /\ Len(events) = 1
    /\ events[1].ev = "stats"
    /\ events[1].count = log_overrun

(* the loop has ended with a report request pending and an overrun counted *)
C4_Witness ==
  pc = "done" /\ display_statistics = 1 /\ log_overrun >= 1
  /\ events[1].count = log_overrun

(***************************************************************************)
(* C5: an iteration that finds display_statistics set writes exactly one   *)
(* statistics line and then clears the flag; afterwards the flag is set,   *)
(* and a statistics line of a report is written, only if the SIGUSR1       *)
(* handler has run since that clear.                                       *)
(***************************************************************************)
StatsAt == { i \in 1..Len(events) : events[i].ev = "stats" }

C5_ReportServedOnce ==
  /\ display_statistics # 0 => usr1_since_clear
  /\ pc = "print" => display_statistics # 0
  /\ Cardinality(StatsAt) <= 1
  /\ pc = "clear" => (events # <<>> /\ Last(events).ev = "stats")
  /\ \A i \in StatsAt :
       pc \notin {"clear", "done"} => (i < Len(events) /\ events[i + 1].ev = "clear")
  /\ \A i \in 1..Len(events) :
       events[i].ev = "clear" => (i > 1 /\ events[i - 1].ev = "stats")

(* a report has been written and the flag cleared; no request since *)
C5_Witness ==
  /\ pc = "poll" /\ Cardinality(StatsAt) = 1 /\ Last(events).ev = "clear"
  /\ display_statistics = 0 /\ ~usr1_since_clear

(***************************************************************************)
(* C6: in an iteration whose second clock sample is not greater than the   *)
(* first, the loop does not divide by the elapsed value, does not classify *)
(* the iteration as an overrun, does not increment times_not_scheduled and *)
(* writes no steal-time line; a clock that went back does not become a     *)
(* huge elapsed value through the unsigned subtraction.                    *)
(***************************************************************************)
C6_NoClassificationWithoutElapsed ==
  (Classified /\ ClockNow <= ClockPrev) =>
    /\ Last(events).perc.den # 0
    /\ Last(events).perc.den # ClockNow - ClockPrev + UINT64_MOD
    /\ ~Last(events).overrun
    /\ ~Last(events).alarm

(***************************************************************************)
(* C7: poll failing with an errno other than EINTR ends the process at     *)
(* once with exit status 2, and nothing else in the loop ends the process; *)
(* poll returning -1 with EINTR is no error: the iteration goes on to its  *)
(* second clock sample, its second steal sample and the classification.    *)
(***************************************************************************)
PollReturns == { i \in 1..Len(events) : events[i].ev = "poll_returned" }
Failure(e) == e.res = -1 /\ e.errno # "EINTR"

C7_OnlyPollFailureIsFatal ==
  /\ pc = "exit" <=> exit_status # -1
  /\ pc = "exit" =>
       /\ exit_status = 2
       /\ events # <<>> /\ Last(events).ev = "poll_returned" /\ Failure(Last(events))
  /\ \A i \in PollReturns :
       IF Failure(events[i])
       THEN pc = "exit" /\ i = Len(events)
       ELSE /\ pc # "exit"
            /\ pc = "while" =>
                 /\ Len(events) = i + 3
                 /\ events[i + 1].ev = "clock"
                 /\ events[i + 2].ev = "steal"
                 /\ events[i + 3].ev = "classify"

(* poll was interrupted by a signal and the iteration has been classified *)
C7_Witness ==
  /\ Classified
  /\ \E i \in PollReturns : events[i].res = -1 /\ events[i].errno = "EINTR"

(***************************************************************************)
(* C10: in every iteration whose elapsed time is > 0, the steal percentage *)
(* the classification uses is 100 * steal_delta / elapsed, steal_delta     *)
(* being the steal sample after poll minus the one before it (an unsigned  *)
(* 64-bit difference) and elapsed the clock sample after poll minus the    *)
(* one before it.                                                          *)
(***************************************************************************)
C10_StealPercent ==
  (Classified /\ ClockNow > ClockPrev) =>
    LET perc == Last(events).perc
    IN /\ Len(StealSamples) = 2
       /\ perc.den > 0
       /\ perc.num * (ClockNow - ClockPrev) = 100 * U64(StealNow - StealPrev) * perc.den

(* a steal time of 1 unit in 2 elapsed: 50 per cent *)
C10_Witness ==
  /\ Classified /\ ClockNow - ClockPrev = 2 /\ StealNow - StealPrev = 1
  /\ Last(events).perc.num * 2 = 100 * Last(events).perc.den

(***************************************************************************)
(* C8: nano_stealtime_kernel_get returns 0 when /proc/stat cannot be       *)
(* opened and when its aggregate cpu line is malformed; no value is taken  *)
(* from another line of the file then.                                     *)
(***************************************************************************)
Returned == pc = "steal_ret"
FirstLineIn(ls) == procstat.opens /\ procstat.lines # <<>> /\ procstat.lines[1] \in ls

C8_MalformedYieldsZero ==
  (Returned /\ use_vmguestlib_stealtime = 0
            /\ (~procstat.opens \/ FirstLineIn(MalformedLines))) => steal_now = 0

(***************************************************************************)
(* C9: for a well-formed aggregate cpu line the steal sample is the 8th    *)
(* numeric field times (NO_NS_IN_SEC / clock_tick), clock_tick being what  *)
(* sysconf reports, or 100 when it reports none; the other seven fields,   *)
(* and the fields and lines that follow, have no influence.                *)
(***************************************************************************)
C9_StealIsEighthField ==
  \A o \in OtherFields, h \in StealTicks, g \in GuestFields :
    (Returned /\ use_vmguestlib_stealtime = 0 /\ FirstLineIn({AggregateLine(o, h, g)})) =>
      steal_now = h * (NO_NS_IN_SEC \div (IF clock_tick = -1 THEN 100 ELSE clock_tick))

(* `cpu 100 5 50 800 2 1 3 40` at 100 Hz: 40 ticks of a hundredth of a     *)
(* second                                                                  *)
C9_Witness ==
  /\ Returned /\ use_vmguestlib_stealtime = 0
  /\ procstat = File(<<AggregateLine(<<100, 5, 50, 800, 2, 1, 3>>, 40, <<>>)>>)
  /\ clock_tick = 100
  /\ steal_now = 40 * (NO_NS_IN_SEC \div 100)

(***************************************************************************)
(* C11: poll_run is entered only with a validated configuration.  An       *)
(* option -t whose argument is no number or lies outside 1..MAX_TIMEOUT,   *)
(* and an option -m whose argument is no integer in 1..UINT32_MAX, is the  *)
(* last thing main reads: the program exits with a non-zero status and     *)
(* poll_run is never called.  When poll_run is called timeout is in        *)
(* 1..MAX_TIMEOUT and max_steal_threshold in 1..UINT32_MAX.  From the first *)
(* lines of poll_run on no step changes timeout, tv_max_allowed_diff,      *)
(* poll_timeout, max_steal_threshold or use_vmguestlib_stealtime.          *)
(***************************************************************************)
Rejected(i) ==
  /\ startup[i].ev = "getopt"
  /\ startup[i].option \in { Option("t", a) : a \in InvalidTimeoutArgs }
                           \cup { Option("m", a) : a \in InvalidThresholdArgs }
PollRunCalled == \E i \in 1..Len(startup) : startup[i].ev = "poll_run"

C11_Validated ==
  /\ \A i \in 1..Len(startup) :
       Rejected(i) => /\ i = Len(startup)
                      /\ pc = "exit" /\ exit_status > 0
                      /\ ~PollRunCalled
  /\ pc \in {"poll_run", "loop"} =>
       /\ timeout \in 1..MAX_TIMEOUT
       /\ max_steal_threshold >= 1
       /\ WideLE(Wide(max_steal_threshold), UINT32_MAX)

C11_Frozen ==
  /\ pc \in LoopPcs => UNCHANGED <<timeout, max_steal_threshold, use_vmguestlib_stealtime>>
  /\ pc \in LoopPcs \ {"entry"} => UNCHANGED <<tv_max_allowed_diff, poll_timeout>>
  /\ pc \in {"loop", "done", "exit"} => UNCHANGED vars

C11_ValidatedAndFrozen == []C11_Validated /\ [][C11_Frozen]_vars

(* -t 3600001 was the last option read, and the program has exited with 1 *)
C11_Witness ==
  /\ pc = "exit" /\ exit_status = EXIT_ERRX
  /\ startup # <<>>
  /\ startup[Len(startup)] = Got(Option("t", Dec(MAX_TIMEOUT + 1)))

(***************************************************************************)
(* C12: poll_run goes from RUNNING (the while loop) to STOPPING (the lines *)
(* behind the loop) to STOPPED (poll_run has returned).  It leaves RUNNING *)
(* for STOPPING only in the test of the loop condition, with               *)
(* stop_main_loop set, and begins no iteration with it set.  An iteration  *)
(* that has begun is completed, poll, the now samples and the              *)
(* classification included, also with stop_main_loop set on the way and    *)
(* also as an overrun, unless poll fails with an errno other than EINTR:   *)
(* then the process leaves RUNNING by exit(2).  Behind the loop nothing is *)
(* sampled and poll is not called; one statistics line is written, and     *)
(* nothing follows it.                                                     *)
(***************************************************************************)
Phase ==
  CASE pc = "final" -> "STOPPING"
    [] pc = "done" -> "STOPPED"
    [] pc = "exit" -> "ABORTED"
    [] OTHER -> "RUNNING"
InIteration ==
  pc \in {"steal_prev", "tv_prev", "if_display", "print", "clear", "poll", "in_poll",
          "tv_now", "steal_now", "classify"}
EventNames(evs) == [i \in 1..Len(evs) |-> evs[i].ev]
Completed ==
  /\ Len(events) >= 5
  /\ SubSeq(EventNames(events), Len(events) - 4, Len(events))
       = <<"poll", "poll_returned", "clock", "steal", "classify">>

StopAtLoopTest ==
  /\ (Phase = "RUNNING" /\ Phase' = "STOPPING") => (pc = "while" /\ stop_main_loop # 0)
  /\ (pc = "while" /\ pc' = "steal_prev") => stop_main_loop = 0
  /\ (InIteration /\ pc' # pc /\ pc' # "exit") => (pc' = "while" \/ InIteration')
AfterStop ==
  /\ Phase = "STOPPING" =>
       /\ Phase' \in {"STOPPING", "STOPPED"}
       /\ UNCHANGED <<samples, times_not_scheduled, log_overrun, log_steal>>
       /\ Phase' = "STOPPED" =>
            events' = Append(events, [ev |-> "stats", diff |-> Last(events').diff,
                                      count |-> times_not_scheduled])
       /\ Phase' = "STOPPING" => events' = events
  /\ Phase = "STOPPED" => UNCHANGED vars
PollFailure ==
  /\ pc = "in_poll" /\ pc' = "exit"
  /\ Failure(Last(events'))
  /\ exit_status' = EXIT_POLL_ERROR

C12_LoopStateMachine ==
  /\ [][StopAtLoopTest /\ AfterStop]_vars
  /\ [][Phase = "RUNNING" => (Phase' \in {"RUNNING", "STOPPING"} \/ PollFailure)]_vars
  /\ [][Phase = "ABORTED" => UNCHANGED vars]_vars
  /\ [](Classified => Completed)
  /\ InIteration ~> (Classified \/ Phase = "ABORTED")
  /\ (Phase = "STOPPING") ~> (Phase = "STOPPED")

(* stop_main_loop was set before poll was called; the iteration has gone on *)
(* to its classification, and is an overrun                                 *)
C12_Witness ==
  /\ Classified /\ Completed
  /\ stop_main_loop = 1 /\ polled_after_stop
  /\ Last(events).overrun

(* the statement without the exit: RUNNING is left for STOPPING only, and  *)
(* every iteration that has begun reaches its classification               *)
C12_WithoutExit ==
  /\ [][StopAtLoopTest /\ AfterStop]_vars
  /\ [][Phase = "RUNNING" => Phase' \in {"RUNNING", "STOPPING"}]_vars
  /\ [](Classified => Completed)
  /\ InIteration ~> Classified
  /\ (Phase = "STOPPING") ~> (Phase = "STOPPED")

(***************************************************************************)
(* C13: an iteration is, in this order, steal_prev = nano_stealtime_get(), *)
(* tv_prev = nano_current_get(), the statistics line with the clear of     *)
(* display_statistics if that was set, one call of poll and its return,    *)
(* tv_now = nano_current_get(), steal_now = nano_stealtime_get(), the      *)
(* classification.  What an iteration has done so far is always a prefix   *)
(* of that, what a classified iteration has done is all of it, and the     *)
(* four samples are the values the events carry; so poll is called exactly *)
(* once and nothing reads the steal time between the two clock samples.    *)
(***************************************************************************)
IterationEvents ==
  <<"steal", "clock", "poll", "poll_returned", "clock", "steal", "classify">>
IterationEventsWithReport ==
  <<"steal", "clock", "stats", "clear", "poll", "poll_returned", "clock", "steal",
    "classify">>
IsPrefix(s, t) == Len(s) <= Len(t) /\ s = SubSeq(t, 1, Len(s))
Polls == { i \in 1..Len(events) : events[i].ev = "poll" }
Between(i, j) == { k \in 1..Len(events) : i < k /\ k < j }

C13_IterationOrder ==
  /\ (InIteration \/ pc \in {"while", "exit"}) =>
       \/ IsPrefix(EventNames(events), IterationEvents)
       \/ IsPrefix(EventNames(events), IterationEventsWithReport)
  /\ Classified =>
       /\ EventNames(events) \in {IterationEvents, IterationEventsWithReport}
       /\ Cardinality(Polls) = 1
       /\ events[1].val = steal_prev /\ events[2].val = tv_prev
       /\ events[Len(events) - 2].val = tv_now /\ events[Len(events) - 1].val = steal_now
       /\ \A k \in Between(2, Len(events) - 2) : events[k].ev # "steal"
  /\ pc \in {"tv_now", "steal_now", "classify"} => Cardinality(Polls) = 1

(* a classified iteration that wrote the statistics line on its way *)
C13_Witness ==
  Classified /\ EventNames(events) = IterationEventsWithReport

(***************************************************************************)
(* C14: for every timeout main lets through, poll_timeout = timeout / 3 is *)
(* floor(timeout / 3), not negative and at most 1,200,000, and 0 for       *)
(* timeout 1 and 2; timeout * NO_NS_IN_MSEC is below 2^64, so              *)
(* tv_max_allowed_diff is the product itself; and poll_timeout             *)
(* milliseconds are strictly less than tv_max_allowed_diff, so an          *)
(* iteration that measures exactly the poll time is no overrun.            *)
(***************************************************************************)
MaxPollTimeout == MAX_TIMEOUT \div 3

C14_PollQuantum ==
  /\ pc = "loop" =>
       /\ timeout \in 1..MAX_TIMEOUT
       /\ 3 * poll_timeout <= timeout /\ timeout < 3 * (poll_timeout + 1)
       /\ poll_timeout \in 0..MaxPollTimeout
       /\ timeout \in {1, 2} => poll_timeout = 0
       /\ WideLT(WideMul(Wide(timeout), NO_NS_IN_MSEC_ULL), TWO_64)
       /\ tv_max_allowed_diff = WideMul(Wide(timeout), NO_NS_IN_MSEC_ULL)
       /\ WideLT(WideMul(Wide(poll_timeout), NO_NS_IN_MSEC_ULL), tv_max_allowed_diff)
  /\ (InIteration \/ pc = "while") =>
       /\ 3 * poll_timeout <= timeout /\ timeout < 3 * (poll_timeout + 1)
       /\ poll_timeout * NO_NS_IN_MSEC < tv_max_allowed_diff
  /\ (Classified /\ Elapsed = poll_timeout * NO_NS_IN_MSEC) => ~Last(events).overrun

(* poll_run is entered with the largest timeout: poll waits 1,200,000 ms *)
C14_Witness ==
  pc = "loop" /\ timeout = MAX_TIMEOUT /\ poll_timeout = MaxPollTimeout

(***************************************************************************)
(* C15: a step that changes stop_main_loop sets it to 1 and changes        *)
(* nothing else; a step that sets display_statistics changes nothing else  *)
(* of the program; wherever in poll_run the signal comes.  What the        *)
(* handlers leave alone includes times_not_scheduled, tv_start, timeout,   *)
(* tv_max_allowed_diff, max_steal_threshold, the four samples and the      *)
(* other flag.  stop_main_loop is never cleared, and display_statistics is *)
(* cleared by poll_run's own statement only.                               *)
(***************************************************************************)
StopDelivered == stop_main_loop' # stop_main_loop
ReportDelivered == display_statistics' # display_statistics /\ display_statistics' # 0
HandlerFrame ==
  UNCHANGED <<pc, config, times_not_scheduled, samples, pollst, env, logs, events, mainst>>

C15_HandlersSetOneFlag ==
  [][/\ StopDelivered =>
          (stop_main_loop' = 1 /\ HandlerFrame /\ UNCHANGED display_statistics)
     /\ ReportDelivered =>
          (display_statistics' = 1 /\ HandlerFrame /\ UNCHANGED stop_main_loop)
     /\ stop_main_loop # 0 => stop_main_loop' # 0
     /\ (display_statistics # 0 /\ display_statistics' = 0) => (pc = "clear" /\ pc' = "poll")
    ]_vars

(* both signals came while the process was suspended in poll *)
C15_Witness ==
  /\ pc = "in_poll"
  /\ stop_main_loop = 1 /\ ~polled_after_stop
  /\ display_statistics = 1 /\ usr1_unserved
  /\ Len(events) = 3

(***************************************************************************)
(* C16: the step that writes a statistics line changes neither             *)
(* times_not_scheduled nor tv_start, the two flags, timeout,               *)
(* tv_max_allowed_diff, max_steal_threshold or the samples.  tv_start is   *)
(* assigned in the first lines of poll_run and by no later step.  The line *)
(* carries times_not_scheduled, which is the number of overruns classified *)
(* since loop entry (so two lines with no overrun between them carry the   *)
(* same count), and the clock read of that moment minus tv_start.          *)
(***************************************************************************)
StatsWritten ==
  /\ Len(events') = Len(events) + 1
  /\ Last(events').ev = "stats"

C16_SnapshotIsPureRead ==
  [][/\ StatsWritten =>
          /\ UNCHANGED <<times_not_scheduled, config, flags, samples, log_overrun, log_steal>>
          /\ Last(events').count = times_not_scheduled
          /\ Last(events').count = log_overrun
          /\ Last(events').diff = U64(mono' - tv_start)
          /\ pc \in {"print", "final"}
     /\ tv_start' # tv_start => pc = "entry"
     /\ pc # "entry" => tv_start' = tv_start
    ]_vars

(* a statistics line on request, written after an overrun, later than the  *)
(* start of the loop, which was later than the start of the clock          *)
C16_Witness ==
  /\ pc = "clear" /\ Last(events).ev = "stats"
  /\ Last(events).count = 1 /\ Last(events).diff = 1
  /\ tv_start = 1

(***************************************************************************)
(* C17: guestlib_init, called once before poll_run, selects the source of  *)
(* the steal time and the default threshold.  If VMGuestLib_OpenHandle     *)
(* succeeds use_vmguestlib_stealtime is 1 and max_steal_threshold is       *)
(* DEFAULT_MAX_STEAL_THRESHOLD_GL, otherwise the flag stays 0 and the      *)
(* threshold DEFAULT_MAX_STEAL_THRESHOLD; a threshold given with -m is     *)
(* kept either way.  With the flag set nano_stealtime_get returns what     *)
(* VMGuestLib answers to that call, in milliseconds times NO_NS_IN_MSEC,   *)
(* and 0 when a query of that call fails; with the flag 0 it returns what  *)
(* /proc/stat gives.  In a loop entered with the flag set every steal      *)
(* sample is an answer of VMGuestLib, and the flag stays set.              *)
(***************************************************************************)
StartupEvents(name) == { i \in 1..Len(startup) : startup[i].ev = name }
ThresholdOptions ==
  { i \in StartupEvents("getopt") : startup[i].option.opt = "m" }
Maximum(S) == CHOOSE i \in S : \A j \in S : j <= i
ArgValue(a) == CHOOSE n \in {1, 50, 2147483647} : Dec(n) = a
Opened == \E i \in StartupEvents("guestlib_init") : startup[i].opened
GuestValues == {0} \cup { U64(NO_NS_IN_MSEC * ms) : ms \in StolenMs }

C17_SourceSelectedOnce ==
  /\ pc \in {"poll_run", "loop"} =>
       /\ Cardinality(StartupEvents("guestlib_init")) = 1
       /\ use_vmguestlib_stealtime = (IF Opened THEN 1 ELSE 0)
       /\ max_steal_threshold =
            IF ThresholdOptions # {}
            THEN ArgValue(startup[Maximum(ThresholdOptions)].option.arg)
            ELSE IF Opened THEN DEFAULT_MAX_STEAL_THRESHOLD_GL
            ELSE DEFAULT_MAX_STEAL_THRESHOLD
  /\ pc \in {"getopt", "move_on", "set_prio", "retry", "signals", "guestlib"} =>
       use_vmguestlib_stealtime = 0
  /\ Returned =>
       steal_now = IF use_vmguestlib_stealtime # 0
                   THEN (IF guestlib.update /\ guestlib.get
                         THEN U64(NO_NS_IN_MSEC * guestlib.stolen_ms) ELSE 0)
                   ELSE nano_stealtime_kernel_get(procstat, clock_tick)
  /\ (InIteration \/ pc \in {"while", "final", "done"}) =>
       /\ use_vmguestlib_stealtime = 1
       /\ max_steal_threshold = DEFAULT_MAX_STEAL_THRESHOLD_GL
       /\ \A i \in 1..Len(events) : events[i].ev = "steal" => events[i].val \in GuestValues

(* the handle was opened and -m 50 was given: VMGuestLib is the source and *)
(* the threshold is 50                                                     *)
C17_Witness ==
  /\ pc = "loop" /\ Opened
  /\ use_vmguestlib_stealtime = 1
  /\ max_steal_threshold_user_set = 1 /\ max_steal_threshold = 50

(***************************************************************************)
(* C18: what main does with utils_move_to_root_cgroup and                  *)
(* utils_set_rr_scheduler, by the last -P given (auto without one) and by  *)
(* -p.  off: no move, and one scheduler call unless -p.  on: one move,     *)
(* before the one scheduler call (none with -p).  auto: a move only        *)
(* without -p and after a first scheduler call that returned -1, followed  *)
(* by exactly one more scheduler call; otherwise no move.  All of it comes *)
(* before poll_run.                                                        *)
(***************************************************************************)
Moves == StartupEvents("utils_move_to_root_cgroup")
SchedulerCalls == StartupEvents("utils_set_rr_scheduler")
ModeOptions == { i \in StartupEvents("getopt") : startup[i].option.opt = "P" }
ModeGiven ==
  IF ModeOptions = {} THEN "auto"
  ELSE LET a == startup[Maximum(ModeOptions)].option.arg
       IN CASE a \in {<<"o", "n">>, <<"O", "N">>} -> "on"
            [] a = <<"o", "f", "f">> -> "off"
            [] a \in {<<"a", "u", "t", "o">>, <<"A", "u", "t", "o">>} -> "auto"
            [] OTHER -> "none"
PrioEnabled == \A i \in StartupEvents("getopt") : startup[i].option.opt # "p"
Minimum(S) == CHOOSE i \in S : \A j \in S : i <= j
FirstAttemptFailed == SchedulerCalls # {} /\ startup[Minimum(SchedulerCalls)].res = -1

C18_CgroupMode ==
  /\ pc \in {"signals", "guestlib", "poll_run", "loop"} =>
       /\ ModeGiven \in {"on", "off", "auto"}
       /\ ModeGiven = "off" =>
            /\ Moves = {}
            /\ Cardinality(SchedulerCalls) = (IF PrioEnabled THEN 1 ELSE 0)
       /\ ModeGiven = "on" =>
            /\ Cardinality(Moves) = 1
            /\ \A i \in SchedulerCalls : Maximum(Moves) < i
            /\ Cardinality(SchedulerCalls) = (IF PrioEnabled THEN 1 ELSE 0)
       /\ ModeGiven = "auto" =>
            /\ Moves # {} <=> (PrioEnabled /\ FirstAttemptFailed)
            /\ ~PrioEnabled => SchedulerCalls = {}
            /\ (PrioEnabled /\ ~FirstAttemptFailed) => Cardinality(SchedulerCalls) = 1
            /\ Moves # {} =>
                 /\ Cardinality(Moves) = 1 /\ Cardinality(SchedulerCalls) = 2
                 /\ Minimum(SchedulerCalls) < Minimum(Moves)
                 /\ Maximum(SchedulerCalls) = Minimum(Moves) + 1
  /\ pc \in {"getopt", "move_on", "exit"} => (Moves = {} /\ SchedulerCalls = {})
  /\ \A i \in StartupEvents("poll_run") : \A j \in Moves \cup SchedulerCalls : j < i
  /\ pc = "loop" => StartupEvents("poll_run") = {Len(startup)}

(* auto: the first call failed, the process was moved and the scheduler set *)
C18_Witness ==
  /\ pc = "loop" /\ ModeGiven = "auto" /\ ModeOptions # {}
  /\ \E i \in 1..(Len(startup) - 2) :
       /\ startup[i] = Scheduled(1, -1)
       /\ startup[i + 1] = Moved
       /\ startup[i + 2] = Scheduled(0, 0)

(***************************************************************************)
(* C19: every iteration whose tv_diff exceeds tv_max_allowed_diff writes   *)
(* the "Not scheduled" line and increments times_not_scheduled, whatever   *)
(* steal_perc is and whatever the iterations before it were; the "Steal    *)
(* time is > threshold" line is written only in such an iteration, and     *)
(* there exactly when steal_perc > max_steal_threshold, equality not       *)
(* included.  Between iterations the number of "Not scheduled" lines is    *)
(* times_not_scheduled and the number of steal lines is not above it.      *)
(***************************************************************************)
StealPercentExceeds(threshold) ==
  LET d == ClockNow - ClockPrev
      sd == U64(StealNow - StealPrev)
  IN IF U64(d) = 0 THEN sd > 0
     ELSE 100 * sd > threshold * U64(d)

C19_Counts ==
  /\ log_overrun = times_not_scheduled
  /\ log_steal <= times_not_scheduled
  /\ Classified =>
       /\ Last(events).overrun <=> Elapsed > Gap
       /\ Last(events).alarm <=> (Elapsed > Gap /\ StealPercentExceeds(max_steal_threshold))

C19_Diagnostics ==
  /\ []C19_Counts
  /\ [][ClassifyStep =>
          /\ log_overrun' - log_overrun = (IF Last(events').overrun THEN 1 ELSE 0)
          /\ times_not_scheduled' - times_not_scheduled = log_overrun' - log_overrun
          /\ log_steal' - log_steal = (IF Last(events').alarm THEN 1 ELSE 0)]_vars
  /\ [][~ClassifyStep => UNCHANGED <<log_overrun, log_steal, times_not_scheduled>>]_vars

(* the second overrun in a row, its steal percentage 50 with the threshold *)
(* at 50: a "Not scheduled" line without a steal line                      *)
C19_Witness ==
  /\ Classified /\ Last(events).overrun /\ ~Last(events).alarm
  /\ times_not_scheduled = 2 /\ log_steal = 0
  /\ max_steal_threshold = 50
  /\ Last(events).perc.den # 0
  /\ Last(events).perc.num = 50 * Last(events).perc.den

(***************************************************************************)
(* C20: no request for statistics is lost.  display_statistics is cleared  *)
(* only when no SIGUSR1 has come since the last statistics line, and after *)
(* every SIGUSR1 delivered while poll_run runs a statistics line is        *)
(* written (the process not having ended by exit(2)).                      *)
(***************************************************************************)
FlagCleared == display_statistics # 0 /\ display_statistics' = 0

C20_NoRequestLost ==
  /\ [][FlagCleared => ~usr1_unserved]_vars
  /\ usr1_unserved ~> (~usr1_unserved \/ pc = "exit")

(***************************************************************************)
(* C21: a steal-time source that falls back shows as a steal percentage of *)
(* zero only.  In a classified iteration whose steal_now is below its      *)
(* steal_prev (/proc/stat could not be opened for the second sample and    *)
(* nano_stealtime_get returned 0), steal_perc is 0, not the percentage of  *)
(* a difference that went round 2^64, and no "Steal time is > threshold"   *)
(* line is written.                                                        *)
(***************************************************************************)
(* the clock went on between the two clock samples, so the divisor of      *)
(* steal_perc is an ordinary elapsed time                                   *)
StealWentBack == Classified /\ StealNow < StealPrev /\ ClockNow > ClockPrev

C21_NoWrappedStealDelta ==
  StealWentBack =>
    /\ Last(events).perc.num = 0
    /\ ~Last(events).alarm

=============================================================================
